---- MODULE Spec2Model ----
(***************************************************************************)
(* A model of three crates of the inference engine:                        *)
(*   transformer-cpu  Transformer::new_cache and Transformer::update       *)
(*   web-api          schemas::Error (status, body)                        *)
(*   nvidia-gpu       DropOption (from, as_ref, as_mut, sprout)            *)
(*                                                                         *)
(* Numbers are not computed.  A tensor element is a symbolic term built    *)
(* from the kernel that produced it and the terms it read, so two tensors  *)
(* are equal exactly when they were computed the same way from the same    *)
(* inputs.  Every view operation of update (split, reshape, transpose,     *)
(* slice) keeps the innermost dimension whole (head_dim for the q/k/v      *)
(* buffers, att_len for the score buffer), so the unit of a buffer is one  *)
(* head vector (or one score row) and index arithmetic is done on the      *)
(* leading dimensions, in row-major order, as the code does it.            *)
(***************************************************************************)
EXTENDS Integers, Sequences, FiniteSets, TLC

VARIABLES
    model,      \* the hyperparameters behind self.model (fixed per behaviour)
    strict,     \* whether Tensor::split rejects sizes that do not sum to the dimension
    cache,      \* Vec<LayerCache>: cache[layer].k / .v [kv head][position]
    fed,        \* the tokens appended so far, while every call appended at the end
    last,       \* the last update call: arguments, outcome, kernel log
    responses,  \* web-api: the error bodies sent
    slot,       \* nvidia-gpu: DropOption.0 (<<>> is None, <<v>> is Some(v))
    oplog       \* nvidia-gpu: the calls made on the DropOption and how each ended

vars == <<model, strict, cache, fed, last, responses, slot, oplog>>

(***************************************************************************)
(* Bounds of the model.                                                    *)
(***************************************************************************)
MaxTokens == 2
MaxResponses == 2
MaxOps == 4

(* Hyperparameter fixtures: hidden_size d, attention heads, key/value heads,  *)
(* intermediate size, layers, the cache capacity max_seq_len, vocabulary.   *)
Models ==
    { [d |-> 8, nh |-> 4, nkvh |-> 2, di |-> 3, layers |-> 1, max_seq_len |-> 2,
       vocab |-> 2],
      [d |-> 4, nh |-> 2, nkvh |-> 1, di |-> 2, layers |-> 2, max_seq_len |-> 3,
       vocab |-> 1],
      [d |-> 4, nh |-> 2, nkvh |-> 2, di |-> 2, layers |-> 1, max_seq_len |-> 2,
       vocab |-> 1],
      [d |-> 6, nh |-> 3, nkvh |-> 2, di |-> 2, layers |-> 1, max_seq_len |-> 2,
       vocab |-> 1] }

Range0(n) == 0 .. (n - 1)

RECURSIVE Sum(_)
Sum(s) == IF s = <<>> THEN 0 ELSE Head(s) + Sum(Tail(s))

RECURSIVE Product(_)
Product(s) == IF s = <<>> THEN 1 ELSE Head(s) * Product(Tail(s))

(***************************************************************************)
(* Kernels (mod kernel), as terms.                                         *)
(***************************************************************************)
Gather(tok) == <<"embed", tok>>

RmsNorm(which, layer, row) == <<"rms_norm", which, layer, row>>

\* one head_dim-wide column block of x1 @ w_qkv^T
MatMulQkv(layer, block, row) == <<"qkv", layer, block, row>>

Rotary(vec, p) == <<"rope", vec, p>>

\* head_div * (q . k)
Score(q, k) == <<"dot", q, k>>

\* x0 + x1 @ wo^T  (beta = 1)
MatMulAcc(layer, x0row, heads) == <<"add", x0row, <<"o_proj", layer, heads>>>>

\* Softmax over one row of scores of which only the first `valid` are attended
\* (the causal mask of row s of [.., seq_len, att_len]): the row keeps its length,
\* its first `valid` entries become probabilities and the rest become 0.
Softmax(row, valid) == <<"softmax", SubSeq(row, 1, valid), Len(row)>>

\* att @ v for one row: sum_j att[j] * v[j]; a zero probability adds nothing.
WeightedSum(att, v) == <<"attn", att[2], [j \in 1 .. Len(att[2]) |-> v[j - 1]]>>

\* the valid length of row s of a [.., seq_len, att_len] score buffer
CausalLen(seq_len, att_len, s) == att_len - seq_len + s + 1

(***************************************************************************)
(* Tensor view operations (crate tensor): only their failure conditions.   *)
(***************************************************************************)
SliceOk(sl, dim) == sl.start + sl.len <= dim

ReshapeOk(from, to) == Product(from) = Product(to)

SplitOk(dim, sizes) == strict => Sum(sizes) = dim

\* the first column of each part of a split
SplitStarts(sizes) == [i \in 1 .. Len(sizes) |-> Sum(SubSeq(sizes, 1, i - 1))]

(***************************************************************************)
(* LayerCache                                                              *)
(***************************************************************************)
Dh(m) == m.d \div m.nh
Dkv(m) == m.nkvh * Dh(m)
HeadGroup(m) == m.nh \div m.nkvh

\* what the allocation holds before anything is written
FreshCell(layer, which, g, p) == <<"init", layer, which, g, p>>

NewLayers(m) ==
    [layer \in Range0(m.layers) |->
        [k |-> [g \in Range0(m.nkvh) |-> [p \in Range0(m.max_seq_len) |->
                    FreshCell(layer, "k", g, p)]],
         v |-> [g \in Range0(m.nkvh) |-> [p \in Range0(m.max_seq_len) |->
                    FreshCell(layer, "v", g, p)]]]]

(***************************************************************************)
(* Transformer::update                                                     *)
(***************************************************************************)
\* the write slice taken from position 0, whatever pos is
CatSliceFromZero(pos, seq_len) == [start |-> 0, len |-> seq_len]

\* slice![pos; 1; seq_len] on the position dimension of a cache tensor
CatSlice(pos, seq_len) == [start |-> pos, len |-> seq_len]

\* slice![0; 1; att_len]
AttSlice(att_len) == [start |-> 0, len |-> att_len]

\* positions counted from the start of the call, not of the sequence
PositionsFromZero(pos, seq_len) == [s \in Range0(seq_len) |-> s]

\* the U32 tensor of absolute positions pos .. pos + seq_len - 1
Positions(pos, seq_len) == [s \in Range0(seq_len) |-> pos + s]

\* one kernel call: what it wrote (dst), what it read (src), the beta of a
\* mat_mul, and the position range [lo, hi) of a cache slice it touched
Op(op, layer, dst, src, beta, lo, hi) ==
    [op |-> op, layer |-> layer, dst |-> dst, src |-> src, beta |-> beta,
     lo |-> lo, hi |-> hi]

\* reform into the write slice of a cache tensor: position sl.start + i takes
\* row i of the source, every other position keeps what it held
ReformInto(c, sl, src) ==
    [g \in DOMAIN c |-> [p \in DOMAIN c[g] |->
        IF p >= sl.start /\ p < sl.start + sl.len THEN src[g][p - sl.start]
                                                  ELSE c[g][p]]]

\* the read slice of a cache tensor: row j is position sl.start + j
SliceOf(c, sl) == [g \in DOMAIN c |-> [j \in Range0(sl.len) |-> c[g][sl.start + j]]]

\* q copied in its [seq_len, nh, dh] layout, the transpose left out
QAttUntransposed(q, nh, seq_len) ==
    [i \in Range0(nh * seq_len) |-> q[i % nh][i \div nh]]

\* q (viewed [nh, seq_len, dh]) reformed into the contiguous q_att buffer
QAtt(q, nh, seq_len) ==
    [i \in Range0(nh * seq_len) |-> q[i \div seq_len][i % seq_len]]

\* the leading index of row i of a buffer viewed as [n, rows, _]
Lead(i, rows) == i \div rows

\* the body of the layer loop; st is the state carried from layer to layer
Layer(st, layer, tokens, pos) ==
    LET m == model
        seq_len == Len(tokens)
        d == m.d
        nh == m.nh
        nkvh == m.nkvh
        dh == Dh(m)
        dkv == Dkv(m)
        head_group == HeadGroup(m)
        di == m.di
        att_len == pos + seq_len
        cat_slice == CatSlice(pos, seq_len)
        att_slice == AttSlice(att_len)
        position == Positions(pos, seq_len)
        rows == Range0(seq_len)
        x1 == [s \in rows |-> RmsNorm("input", layer, st.x0[s])]
        qkv_cols == d + dkv + dkv
        qkv == [s \in rows |-> [b \in Range0(qkv_cols \div dh) |->
                    MatMulQkv(layer, b, x1[s])]]
        qkv_parts == <<d, dkv, dkv>>
        off == SplitStarts(qkv_parts)
        \* after rotary_embedding and transpose(&[1, 0, 2])
        q == [h \in Range0(nh) |-> [s \in rows |->
                Rotary(qkv[s][(off[1] \div dh) + h], position[s])]]
        k == [g \in Range0(nkvh) |-> [s \in rows |->
                Rotary(qkv[s][(off[2] \div dh) + g], position[s])]]
        v == [g \in Range0(nkvh) |-> [s \in rows |->
                qkv[s][(off[3] \div dh) + g]]]
        sliced == SliceOk(cat_slice, m.max_seq_len)
        k_cache == ReformInto(st.cache[layer].k, cat_slice, k)
        v_cache == ReformInto(st.cache[layer].v, cat_slice, v)
        written == [st.cache EXCEPT ![layer] = [k |-> k_cache, v |-> v_cache]]
        q_att == QAtt(q, nh, seq_len)
        grows == head_group * seq_len
        reshaped == /\ ReshapeOk(<<nh, seq_len, dh>>, <<nkvh, grows, dh>>)
                    /\ ReshapeOk(<<nkvh, grows, att_len>>, <<nh, seq_len, att_len>>)
        k_att == SliceOf(k_cache, att_slice)
        v_att == SliceOf(v_cache, att_slice)
        \* att[g, r, j] = head_div * q_att[g, r, :] . k_att[g, j, :]
        att == [i \in Range0(nkvh * grows) |-> [j \in 1 .. att_len |->
                    Score(q_att[i], k_att[Lead(i, grows)][j - 1])]]
        \* softmax on the view [nh, seq_len, att_len]: row i is (i / seq_len, i % seq_len)
        prob == [i \in Range0(nkvh * grows) |->
                    Softmax(att[i], CausalLen(seq_len, att_len, i % seq_len))]
        x2 == [i \in Range0(nkvh * grows) |->
                    WeightedSum(prob[i], v_att[Lead(i, grows)])]
        \* x2 viewed [nh, seq_len, dh], transposed, reformed into x1 as [seq_len, nh, dh]
        heads == [s \in rows |-> [h \in Range0(nh) |-> x2[h * seq_len + s]]]
        x0 == [s \in rows |-> MatMulAcc(layer, st.x0[s], heads[s])]
        gate_parts == <<di, di>>
        split == SplitOk(di, gate_parts)
        ops1 == << Op("rms_norm", layer, "x1", "x0", 0, 0, 0),
                   Op("mat_mul", layer, "qkv", "x1", 0, 0, 0),
                   Op("rope", layer, "q", "pos", 0, 0, 0),
                   Op("rope", layer, "k", "pos", 0, 0, 0) >>
        ops2 == << Op("reform", layer, "q_att", "q", 0, 0, 0),
                   Op("reform", layer, "k_cache", "k", 0,
                      cat_slice.start, cat_slice.start + cat_slice.len),
                   Op("reform", layer, "v_cache", "v", 0,
                      cat_slice.start, cat_slice.start + cat_slice.len) >>
        ops3 == << Op("mat_mul", layer, "att", "k_cache", 0,
                      att_slice.start, att_slice.start + att_slice.len),
                   Op("softmax", layer, "att", "att", 0, 0, 0),
                   Op("mat_mul", layer, "x2", "v_cache", 0,
                      att_slice.start, att_slice.start + att_slice.len),
                   Op("reform", layer, "x1", "x2", 0, 0, 0),
                   Op("mat_mul", layer, "x0", "x1", 1, 0, 0),
                   Op("rms_norm", layer, "x1", "x0", 0, 0, 0),
                   Op("mat_mul", layer, "gate_up", "x1", 0, 0, 0) >>
        split1 == [layer |-> layer, buf |-> "qkv", cols |-> qkv_cols,
                   parts |-> qkv_parts]
        split2 == [layer |-> layer, buf |-> "gate_up", cols |-> di,
                   parts |-> gate_parts]
    IN  IF ~sliced
        THEN [st EXCEPT !.err = "OutOfBounds", !.ops = @ \o ops1,
                        !.splits = Append(@, split1)]
        ELSE IF ~reshaped
        THEN [st EXCEPT !.err = "SizeMismatch", !.cache = written,
                        !.ops = @ \o ops1 \o ops2, !.splits = Append(@, split1)]
        ELSE [st EXCEPT !.err = IF split THEN "none" ELSE "ShapeViolation",
                        !.cache = written, !.x0 = x0,
                        !.attn = Append(@, heads),
                        !.ops = @ \o ops1 \o ops2 \o ops3,
                        !.splits = @ \o <<split1, split2>>,
                        !.done = IF split THEN @ + 1 ELSE @]

RECURSIVE Layers(_, _, _, _)
Layers(st, layer, tokens, pos) ==
    IF layer >= model.layers \/ st.err # "none" THEN st
    ELSE Layers(Layer(st, layer, tokens, pos), layer + 1, tokens, pos)

\* what update returns when it returns
Returned(st) == <<>>

\* update(tokens, cache, pos): the cache it leaves, how it ended, what it returned
Update(c, tokens, pos) ==
    LET st0 == [cache |-> c,
                x0 |-> [s \in Range0(Len(tokens)) |-> Gather(tokens[s + 1])],
                err |-> "none",
                attn |-> <<>>,
                ops |-> << Op("gather", 0, "x0", "tokens", 0, 0, 0) >>,
                splits |-> <<>>,
                done |-> 0]
        st == Layers(st0, 0, tokens, pos)
    IN  [cache |-> st.cache, err |-> st.err, x0 |-> st.x0, attn |-> st.attn,
         ops |-> st.ops, splits |-> st.splits, done |-> st.done,
         ret |-> Returned(st)]

TokenSeqs(m) == UNION { [1 .. n -> Range0(m.vocab)] : n \in 1 .. MaxTokens }

NoCall(c) ==
    [called |-> FALSE, tokens |-> <<>>, pos |-> 0, err |-> "none", ret |-> <<>>,
     x0 |-> <<>>, attn |-> <<>>, ops |-> <<>>, splits |-> <<>>, done |-> 0,
     before |-> c]

\* Transformer::new_cache: a fresh cache set replaces the session's
NewCache ==
    /\ cache' = NewLayers(model)
    /\ fed' = [ok |-> TRUE, toks |-> <<>>]
    /\ last' = NoCall(NewLayers(model))
    /\ UNCHANGED <<model, strict, responses, slot, oplog>>

\* the session's token list: it follows the cache while calls append at its end
Fed(f, r, c, tokens, pos) ==
    IF f.ok /\ pos = Len(f.toks) /\ pos + Len(tokens) <= model.max_seq_len
    THEN [ok |-> TRUE, toks |-> f.toks \o tokens]
    ELSE IF r.cache = c THEN f
    ELSE [ok |-> FALSE, toks |-> <<>>]

UpdateCall(tokens, pos) ==
    /\ LET r == Update(cache, tokens, pos)
       IN  /\ cache' = r.cache
           /\ last' = [called |-> TRUE, tokens |-> tokens, pos |-> pos,
                       err |-> r.err, ret |-> r.ret, x0 |-> r.x0,
                       attn |-> r.attn, ops |-> r.ops, splits |-> r.splits,
                       done |-> r.done, before |-> cache]
           /\ fed' = Fed(fed, r, cache, tokens, pos)
    /\ UNCHANGED <<model, strict, responses, slot, oplog>>

(***************************************************************************)
(* web-api: schemas::Error                                                 *)
(***************************************************************************)
MaxDialogPos == 3
JsonErrors == {"EOF while parsing", "expected value", "missing field"}

Errors ==
    { [kind |-> kd, arg |-> 0, msg |-> ""] :
          kd \in {"SessionBusy", "SessionDuplicate", "SessionNotFound"} }
    \cup { [kind |-> "WrongJson", arg |-> 0, msg |-> e] : e \in JsonErrors }
    \cup { [kind |-> "InvalidDialogPos", arg |-> n, msg |-> ""] : n \in 0 .. MaxDialogPos }

\* Error::status, as_u16
Status(e) ==
    CASE e.kind = "SessionNotFound" -> 404
      [] e.kind = "SessionBusy" -> 406
      [] e.kind = "SessionDuplicate" -> 409
      [] e.kind = "WrongJson" -> 400
      [] e.kind = "InvalidDialogPos" -> 416

\* the error! macro
ErrorBody(e, code, msg) == [status |-> Status(e), code |-> code, message |-> msg]

\* Error::body: the JSON object, as key :> value pairs
Body(e) ==
    CASE e.kind = "SessionNotFound" -> ErrorBody(e, 0, "Session not found")
      [] e.kind = "SessionBusy" -> ErrorBody(e, 0, "Session is busy")
      [] e.kind = "SessionDuplicate" -> ErrorBody(e, 0, "Session ID already exists")
      [] e.kind = "WrongJson" -> ErrorBody(e, 0, e.msg)
      [] e.kind = "InvalidDialogPos" ->
            [status |-> Status(e), code |-> 0,
             message |-> "Dialog position out of range",
             current_dialog_pos |-> e.arg]

\* a request ends in error e: the reply carries status() and body()
Respond(e) ==
    /\ Len(responses) < MaxResponses
    /\ responses' = Append(responses, [error |-> e, status |-> Status(e), body |-> Body(e)])
    /\ UNCHANGED <<model, strict, cache, fed, last, slot, oplog>>

(***************************************************************************)
(* nvidia-gpu: DropOption                                                  *)
(***************************************************************************)
Spores == {1, 2}
Contexts == {1, 2}

\* From<T>: Self(Some(value))
From(value) == <<value>>

\* Option::unwrap succeeds on Some
IsSome(o) == o # <<>>

\* a take that leaves the value in place
TakeKeeps(o) == o

\* Option::take leaves None behind
Take(o) == <<>>

Called(op, ctx, ok, o) == [op |-> op, ctx |-> ctx, ok |-> ok, full |-> IsSome(o)]

AsRef ==
    /\ Len(oplog) < MaxOps
    /\ oplog' = Append(oplog, Called("as_ref", 0, IsSome(slot), slot))
    /\ UNCHANGED <<slot, model, strict, cache, fed, last, responses>>

AsMut ==
    /\ Len(oplog) < MaxOps
    /\ oplog' = Append(oplog, Called("as_mut", 0, IsSome(slot), slot))
    /\ UNCHANGED <<slot, model, strict, cache, fed, last, responses>>

Sprout(ctx) ==
    /\ Len(oplog) < MaxOps
    /\ slot' = Take(slot)
    /\ oplog' = Append(oplog, Called("sprout", ctx, IsSome(slot), slot'))
    /\ UNCHANGED <<model, strict, cache, fed, last, responses>>

(***************************************************************************)
(* Specifications: one per crate.                                          *)
(***************************************************************************)
Init ==
    /\ model \in Models
    /\ strict \in BOOLEAN
    /\ cache = NewLayers(model)
    /\ fed = [ok |-> TRUE, toks |-> <<>>]
    /\ last = NoCall(cache)
    /\ responses = <<>>
    /\ slot = From(1)
    /\ oplog = <<>>

Next ==
    \/ NewCache
    \/ \E tokens \in TokenSeqs(model) : \E pos \in 0 .. model.max_seq_len : UpdateCall(tokens, pos)

Spec == Init /\ [][Next]_vars

\* the server alone: no transformer call is made
InitApi ==
    /\ model = CHOOSE m \in Models : m.layers = 2 /\ m.nh = 2
    /\ strict = FALSE
    /\ cache = NewLayers(model)
    /\ fed = [ok |-> TRUE, toks |-> <<>>]
    /\ last = NoCall(cache)
    /\ responses = <<>>
    /\ slot = From(1)
    /\ oplog = <<>>

NextApi == \E e \in Errors : Respond(e)

SpecApi == InitApi /\ [][NextApi]_vars

\* one DropOption, built from any spore
InitDrop ==
    /\ model = CHOOSE m \in Models : m.layers = 2 /\ m.nh = 2
    /\ strict = FALSE
    /\ cache = NewLayers(model)
    /\ fed = [ok |-> TRUE, toks |-> <<>>]
    /\ last = NoCall(cache)
    /\ responses = <<>>
    /\ \E value \in Spores : slot = From(value)
    /\ oplog = <<>>

NextDrop == AsRef \/ AsMut \/ \E ctx \in Contexts : Sprout(ctx)

SpecDrop == InitDrop /\ [][NextDrop]_vars

(***************************************************************************)
(* Properties of Transformer::update (specification Spec).                 *)
(***************************************************************************)
SeqLen == Len(last.tokens)
AttLen == last.pos + SeqLen
Fits == last.pos + SeqLen <= model.max_seq_len
Written(p) == p >= last.pos /\ p < last.pos + SeqLen
KvLog(names) == { i \in 1 .. Len(last.ops) : last.ops[i].op = names[1] /\
                                              ( \/ last.ops[i].dst \in names[2]
                                                \/ last.ops[i].src \in names[2] ) }
CacheNames == {"k_cache", "v_cache"}

\* C1: a call with pos + tokens.len() > max_seq_len fails with SequenceTooLong
\* and leaves every key and value entry of every layer cache as it was.
C1_SequenceTooLong ==
    (last.called /\ ~Fits) => (last.err = "SequenceTooLong" /\ cache = last.before)

\* C2: a call that satisfies the preconditions returns the final residual
\* stream x0, one row of hidden_size values per token.
C2_ReturnsResidual ==
    (last.called /\ Fits /\ model.nh % model.nkvh = 0 /\ last.err = "none") =>
        /\ Len(last.ret) = SeqLen
        /\ \A s \in Range0(SeqLen) : last.ret[s + 1] = last.x0[s]

\* C3: in every layer, after the gate/up mat_mul come swiglu and a
\* down-projection mat_mul with beta = 1 into x0, so x0 is accumulated into
\* twice per layer.
C3_GatedMlp ==
    (last.called /\ last.err = "none") =>
        \A l \in Range0(model.layers) :
            LET at(op, dst) == { i \in 1 .. Len(last.ops) :
                                    /\ last.ops[i].layer = l
                                    /\ last.ops[i].op = op
                                    /\ last.ops[i].dst = dst }
                acc == { i \in at("mat_mul", "x0") : last.ops[i].beta = 1 }
            IN  /\ \E i \in at("mat_mul", "gate_up") :
                   \E j \in at("swiglu", "gate") :
                   \E n \in acc : i < j /\ j < n
                /\ Cardinality(acc) = 2

\* C4: a call with pos + seq_len <= max_seq_len writes, in every layer, only the
\* key and value entries at positions pos .. pos+seq_len-1; every entry at
\* another position is unchanged; and the attention of a layer reads positions
\* 0 .. pos+seq_len-1 as they stand after that layer's write.
C4_CacheFrame ==
    (last.called /\ Fits) =>
        /\ \A l \in Range0(model.layers) : \A g \in Range0(model.nkvh) :
           \A p \in Range0(model.max_seq_len) :
              ~Written(p) => /\ cache[l].k[g][p] = last.before[l].k[g][p]
                             /\ cache[l].v[g][p] = last.before[l].v[g][p]
        /\ \A i \in KvLog(<<"reform", CacheNames>>) :
              /\ last.ops[i].lo = last.pos
              /\ last.ops[i].hi = last.pos + SeqLen
              /\ \A g \in Range0(model.nkvh) : \A p \in Range0(model.max_seq_len) :
                    Written(p) =>
                        LET c == IF last.ops[i].dst = "k_cache"
                                 THEN cache[last.ops[i].layer].k[g][p][2]
                                 ELSE cache[last.ops[i].layer].v[g][p]
                        IN  c[1] = "qkv" /\ c[2] = last.ops[i].layer
        /\ \A i \in KvLog(<<"mat_mul", CacheNames>>) :
              /\ last.ops[i].lo = 0
              /\ last.ops[i].hi = AttLen
              /\ \E j \in 1 .. (i - 1) : /\ last.ops[j].op = "reform"
                                         /\ last.ops[j].layer = last.ops[i].layer
                                         /\ last.ops[j].dst = last.ops[i].src
        /\ \A l \in 1 .. Len(last.attn) : \A s \in Range0(SeqLen) :
           \A h \in Range0(model.nh) :
              LET out == last.attn[l][s][h]
              IN  /\ Len(out[2]) = CausalLen(SeqLen, AttLen, s)
                  /\ Len(out[3]) = Len(out[2])
                  /\ \E g \in Range0(model.nkvh) : \A j \in 1 .. Len(out[2]) :
                        /\ out[2][j][3] = cache[l - 1].k[g][j - 1]
                        /\ out[3][j] = cache[l - 1].v[g][j - 1]

\* a call at pos > 0 that wrote next to entries an earlier call had written
C4_Witness ==
    /\ last.called /\ Fits /\ last.err = "none" /\ last.pos > 0
    /\ model.layers = 2
    /\ last.before[1].k[0][0][1] = "rope"
    /\ cache[1].k[0][last.pos] # last.before[1].k[0][last.pos]

\* C5: appending is independent of batching: after calls that fed t[0..m] at
\* pos 0 and then t[m..n] at pos m into fresh caches (and so on, call after
\* call), the range [0:n] of every layer cache equals the range [0:n] left by
\* the single call update(t, fresh, 0); in the first layer it is the
\* concatenation of the calls' K and V projections, token by token.
C5_BatchIndependent ==
    (fed.ok /\ Len(fed.toks) > 0) =>
        LET once == Update(NewLayers(model), fed.toks, 0).cache
        IN  \A l \in Range0(model.layers) : \A g \in Range0(model.nkvh) :
            \A p \in Range0(Len(fed.toks)) :
                /\ cache[l].k[g][p] = once[l].k[g][p]
                /\ cache[l].v[g][p] = once[l].v[g][p]
                /\ l = 0 =>
                      LET x1 == RmsNorm("input", 0, Gather(fed.toks[p + 1]))
                      IN  /\ cache[l].k[g][p] =
                                Rotary(MatMulQkv(0, model.nh + g, x1), p)
                          /\ cache[l].v[g][p] =
                                MatMulQkv(0, model.nh + model.nkvh + g, x1)

\* three tokens fed by more than one call, through two layers
C5_Witness ==
    /\ fed.ok /\ Len(fed.toks) = 3
    /\ last.called /\ last.pos > 0 /\ last.err = "none"
    /\ model.layers = 2
    /\ cache[1].k[0][2][1] = "rope"

\* the key/value head whose cache entries an attention output was computed from
UsesKv(out, l, g) ==
    \A j \in 1 .. Len(out[2]) : /\ out[2][j][3] = cache[l].k[g][j - 1]
                                /\ out[3][j] = cache[l].v[g][j - 1]

\* the query head an attention output was computed for
QueryHead(out) == out[2][1][2][2][3]

\* C6: with head_group = num_heads / num_kv_heads, the attention output of
\* query head h is computed from query head h and from the cache of key/value
\* head floor(h / head_group) alone, and every key/value head serves exactly
\* head_group query heads, at every sequence position of the call.
C6_GroupedQuery ==
    last.called =>
        \A l \in 1 .. Len(last.attn) : \A s \in Range0(SeqLen) :
            /\ \A h \in Range0(model.nh) :
                  LET out == last.attn[l][s][h]
                  IN  /\ QueryHead(out) = h
                      /\ \A g \in Range0(model.nkvh) :
                            UsesKv(out, l - 1, g) <=> g = h \div HeadGroup(model)
            /\ \A g \in Range0(model.nkvh) :
                  Cardinality({ h \in Range0(model.nh) :
                                   UsesKv(last.attn[l][s][h], l - 1, g) })
                      = HeadGroup(model)

\* four query heads on two key/value heads, two tokens in the call
C6_Witness ==
    /\ last.called /\ last.err = "none"
    /\ model.nh = 4 /\ model.nkvh = 2 /\ SeqLen = 2
    /\ UsesKv(last.attn[1][1][3], 0, 1)
    /\ UsesKv(last.attn[1][1][0], 0, 0)

\* C7: when num_heads is not a multiple of num_kv_heads, update fails with
\* InvalidHeadConfig before any attention computation or cache write.
C7_InvalidHeadConfig ==
    (last.called /\ model.nh % model.nkvh # 0) =>
        /\ last.err = "InvalidHeadConfig"
        /\ cache = last.before
        /\ KvLog(<<"reform", CacheNames>>) = {}
        /\ KvLog(<<"mat_mul", CacheNames>>) = {}

\* C9: the gate/up buffer is split into a gate part and an up part of
\* intermediate_size columns each, which exactly partition its columns, as the
\* QKV buffer of hidden_size + 2*kv_dim columns is partitioned into parts of
\* hidden_size, kv_dim and kv_dim columns.
C9_SplitsPartition ==
    last.called =>
        \A i \in 1 .. Len(last.splits) :
            LET sp == last.splits[i]
            IN  /\ Sum(sp.parts) = sp.cols
                /\ sp.buf = "gate_up" => sp.parts = <<model.di, model.di>>
                /\ sp.buf = "qkv" =>
                      sp.parts = <<model.d, Dkv(model), Dkv(model)>>

(***************************************************************************)
(* Properties of schemas::Error (specification SpecApi).                   *)
(***************************************************************************)
\* C8: no two error kinds share an HTTP status, no two error kinds share a
\* `code` in their body, and the body's `status` is Error::status.
C8_DistinctStatusAndCode ==
    \A i \in 1 .. Len(responses) : \A j \in 1 .. Len(responses) :
        /\ responses[i].body.status = responses[i].status
        /\ responses[i].error.kind # responses[j].error.kind =>
              /\ responses[i].status # responses[j].status
              /\ responses[i].body.code # responses[j].body.code

(***************************************************************************)
(* Properties of DropOption (specification SpecDrop).                      *)
(***************************************************************************)
Sprouts == { i \in 1 .. Len(oplog) : oplog[i].op = "sprout" }
FirstSprout == IF Sprouts = {} THEN Len(oplog) + 1
               ELSE CHOOSE i \in Sprouts : \A j \in Sprouts : i <= j

\* C10: a DropOption yields its value at most once: before the first sprout
\* as_ref and as_mut succeed and leave the holder full; the first sprout
\* succeeds and leaves it empty; every later as_ref, as_mut or sprout panics.
C10_YieldsOnce ==
    /\ \A i \in 1 .. Len(oplog) :
          /\ i < FirstSprout => (oplog[i].ok /\ oplog[i].full)
          /\ i = FirstSprout => (oplog[i].ok /\ ~oplog[i].full)
          /\ i > FirstSprout => (~oplog[i].ok /\ ~oplog[i].full)
    /\ Cardinality({ i \in Sprouts : oplog[i].ok }) <= 1
    /\ IsSome(slot) <=> Sprouts = {}

\* as_ref, then the first sprout, then a second sprout and an as_mut
C10_Witness ==
    /\ Len(oplog) = 4
    /\ oplog[1].op = "as_ref" /\ oplog[2].op = "sprout"
    /\ oplog[3].op = "sprout" /\ oplog[3].ctx # oplog[2].ctx
    /\ oplog[4].op = "as_mut"

====
